---- MODULE Spec2Model ----
(***************************************************************************)
(* User-space Packet of include/click/packet.hh: a heap of Packet objects  *)
(* over a heap of buffer regions.  A Packet names its buffer by index and  *)
(* its _head, _data, _tail, _end, _nh.raw and _h_raw pointers are offsets  *)
(* from the start of that buffer's allocation.                             *)
(* The out-of-line members (make, clone, ~Packet, expensive_uniqueify,     *)
(* expensive_push, expensive_put) live in lib/packet.cc, which is not part *)
(* of the sources at hand; they are written from the design document.      *)
(* Buffer geometry is scaled down: Headroom stands for DEFAULT_HEADROOM    *)
(* (28) and MinBufLen for MIN_BUFFER_LENGTH (64).                          *)
(***************************************************************************)
EXTENDS Integers, Sequences, FiniteSets, TLC

\* ---------------------------------------------------------------- bounds
MaxOps == 6       \* calls made in one behaviour
MaxPkt == 3       \* Packet objects ever constructed in one behaviour
MaxBuf == 2       \* buffer regions ever allocated in one behaviour
MaxMake == 1      \* calls of make / import in one behaviour
MaxLen == 2       \* largest payload asked of make / import
MaxN == 2         \* largest byte count passed to push/pull/put/take
MaxWrites == 1    \* bytes stored through WritablePackets in one behaviour
Headroom == 1     \* the headroom make(len) reserves
MinBufLen == 3    \* the allocator's minimum buffer length
MaxHdr == 1       \* largest header offset and header length set on a packet
MaxAnno == 1      \* user annotation values are 0..MaxAnno
NThreads == 2     \* worker threads
MaxSeen == 3      \* packets handed to a header checker in one behaviour
MaxSetup == 3     \* calls that build those packets
MaxBufLen == MinBufLen   \* largest buffer the allocator hands out

Pkts == 1..MaxPkt
Bufs == 1..MaxBuf
Counts == 0..MaxN
Threads == 1..NThreads
Null == -1        \* the null pointer, for _nh.raw and _h_raw

VARIABLES
  pkt,    \* the Packet objects
  buf,    \* the buffer regions
  call,   \* the last call: what was called on which handle, what it returned,
          \* and the target as it was when the call was made
  ops,    \* the number of calls made so far
  thr,    \* per worker thread: where it is in kill() and on which Packet
  chk     \* a header checker element: configuration, counters, log, outputs

vars == <<pkt, buf, call, ops, thr, chk>>

\* ------------------------------------------------------------ the heaps
NoPkt(s) ==
  [st |-> s, held |-> FALSE, use_count |-> 0, data_packet |-> 0, buf |-> 0,
   head |-> 0, data |-> 0, tail |-> 0, end |-> 0, destructor |-> FALSE,
   nh |-> Null, h_raw |-> Null, cb |-> 0, dst_ip |-> 0, pkt_type |-> 0,
   timestamp |-> 0, by |-> "none"]

\* ext: the bytes belong to the caller of make(data, len, destructor);
\* frees: how often the region was released; calls: the arguments of every
\* call of the release callback
NoBuf ==
  [st |-> "unused", ext |-> FALSE, len |-> 0, bytes |-> <<>>, frees |-> 0,
   calls |-> <<>>]


\* operator new: the first slot never used before (0 when exhausted)
NewPkt(P) ==
  IF \E i \in Pkts : P[i].st = "unused"
  THEN CHOOSE i \in Pkts : P[i].st = "unused" /\ \A j \in 1..(i-1) : P[j].st # "unused"
  ELSE 0

NewBuf(B) ==
  IF \E i \in Bufs : B[i].st = "unused"
  THEN CHOOSE i \in Bufs : B[i].st = "unused" /\ \A j \in 1..(i-1) : B[j].st # "unused"
  ELSE 0

\* the handles a caller may still use: constructed, and kill() not yet called on them
Held(P) == {h \in Pkts : P[h].st = "live" /\ P[h].held}

\* ---------------------------------------------------------------- bytes
\* memory nobody wrote yet: one value per buffer, unlike every payload byte
Junk(b) == 0 - b
\* the i-th byte of the payload handed to make
Payload(len) == [i \in 1..len |-> i]
\* the byte a caller stores through a WritablePacket
Written == MaxLen + 1

Fill(n, v) == [i \in 1..n |-> v]

\* ------------------------------------------------------------- accessors
length(p) == p.tail - p.data
headroom(p) == p.data - p.head
\* tailroom() measured from the start of the data
tailroom_FromData(p) == p.end - p.data

tailroom(p) == p.end - p.tail
buffer_length(p) == p.end - p.head

\* shared() counting one reference too many
shared_OffByOne(p) == p.data_packet # 0 \/ p.use_count >= 1

\* shared() looking at the reference count alone
shared_CountOnly(p) == p.use_count > 1

shared(p) == p.data_packet # 0 \/ p.use_count > 1

\* has_network_header(): a network header has been set since the last
\* clear_annotations()
has_network_header(p) == p.nh # Null

network_header_offset(p) == p.nh - p.data
transport_header_offset(p) == p.h_raw - p.data

\* the bytes in [from, to) of buffer b, where the buffer has them
Bytes(B, b, from, to) ==
  [i \in 1..(to - from) |->
     IF b \in Bufs /\ from + i \in 1..Len(B[b].bytes) THEN B[b].bytes[from + i] ELSE Junk(0)]

\* the bytes in [data, tail) as seen through packet h
View(P, B, h) == Bytes(B, P[h].buf, P[h].data, P[h].tail)

\* a worker thread outside kill()
Idle == [pc |-> "idle", obj |-> 0, reg |-> 0]

\* the whole heap, as the operations below transform it
Heap == [pkt |-> pkt, buf |-> buf]

\* ----------------------------------------------------- release (kill, ~Packet)
\* delete[] _head, or _destructor(_head, _end - _head) for an imported buffer
FreeBuffer(S, p) ==
  [S EXCEPT !.buf[p.buf] =
     [@ EXCEPT !.st = "freed", !.frees = @ + 1, !.bytes = Fill(Len(@), Junk(0)),
               !.calls = IF p.destructor
                         THEN Append(@, <<p.head, p.end - p.head>>)
                         ELSE @]]

\* kill() deleting one reference early
KillDeletes_Early(c) == c <= 1

\* kill(): "if (--_use_count <= 0) delete this"
KillDeletes(c) == c <= 0

RECURSIVE kill(_, _)
\* ~Packet(): a clone releases its reference on _data_packet, the owner of
\* the bytes releases the buffer
Destroy(S, h) ==
  LET p == S.pkt[h]
      S1 == [S EXCEPT !.pkt[h] = NoPkt("deleted")]
  IN IF p.data_packet # 0 THEN kill(S1, p.data_packet) ELSE FreeBuffer(S1, p)

kill(S, h) ==
  IF S.pkt[h].st # "live" THEN S
  ELSE LET c == S.pkt[h].use_count - 1
           S1 == [S EXCEPT !.pkt[h].use_count = c]
       IN IF KillDeletes(c) THEN Destroy(S1, h) ELSE S1

\* the caller gives up handle h and calls h->kill()
Drop(S, h) == kill([S EXCEPT !.pkt[h].held = FALSE], h)

\* -------------------------------------------------------------- creation
\* alloc_data(headroom, len, tailroom): the buffer is at least MinBufLen long,
\* the slack goes to the tailroom
AllocLen(hr, len, tr) ==
  IF hr + len + tr < MinBufLen THEN MinBufLen ELSE hr + len + tr

\* new unsigned char[n], with bytes `pay` stored from offset `at` on
NewBytes(b, n, at, pay) ==
  [i \in 1..n |-> IF i - at \in 1..Len(pay) THEN pay[i - at] ELSE Junk(b)]

AllocBuf(b, ext, n, at, pay) ==
  [st |-> "alloc", ext |-> ext, len |-> n, frees |-> 0, calls |-> <<>>,
   bytes |-> NewBytes(b, n, at, pay)]

\* a Packet as Packet() leaves it, over buffer b; `by` remembers which call
\* produced the handle
FreshPkt(b, hd, dt, tl, en, destr, by) ==
  [st |-> "live", held |-> TRUE, use_count |-> 1, data_packet |-> 0, buf |-> b,
   head |-> hd, data |-> dt, tail |-> tl, end |-> en, destructor |-> destr,
   nh |-> Null, h_raw |-> Null, cb |-> 0, dst_ip |-> 0, pkt_type |-> 0,
   timestamp |-> 0, by |-> by]

\* make(headroom, data, len, tailroom): payload copied behind the headroom
make(S, hr, len, tr) ==
  LET n == AllocLen(hr, len, tr)
      h == NewPkt(S.pkt)
      b == NewBuf(S.buf)
  IN [pkt |-> [S.pkt EXCEPT ![h] = FreshPkt(b, 0, hr, hr + len, n, FALSE, "make")],
      buf |-> [S.buf EXCEPT ![b] = AllocBuf(b, FALSE, n, hr, Payload(len))]]

\* make(data, len, destructor): wraps the caller's bytes, no room at either end
import(S, len) ==
  LET h == NewPkt(S.pkt)
      b == NewBuf(S.buf)
  IN [pkt |-> [S.pkt EXCEPT ![h] = FreshPkt(b, 0, 0, len, len, TRUE, "import")],
      buf |-> [S.buf EXCEPT ![b] = AllocBuf(b, TRUE, len, 0, Payload(len))]]

\* clone(): a bytewise copy of the Packet that refers to the original
clone(S, h) ==
  LET c == NewPkt(S.pkt)
  IN [S EXCEPT !.pkt[c] = [S.pkt[h] EXCEPT !.use_count = 1, !.data_packet = h,
                                           !.held = TRUE, !.by = "clone"],
               !.pkt[h].use_count = @ + 1]

\* --------------------------------------------------- the copying slow paths
\* a private copy of packet h in a fresh buffer with `front` more bytes of
\* headroom and `back` more bytes of tailroom; the valid bytes, the header
\* offsets and the annotations are carried over (Copy) and the original
\* handle is given up (CopyTo)
Copy(S, h, front, back) ==
  LET p == S.pkt[h]
      q == NewPkt(S.pkt)
      b == NewBuf(S.buf)
      n == buffer_length(p) + front + back
      moved(ptr) == IF ptr = Null THEN Null ELSE ptr + front
      S1 == [pkt |-> [S.pkt EXCEPT ![q] =
                        [p EXCEPT !.use_count = 1, !.data_packet = 0, !.held = TRUE,
                                  !.buf = b, !.destructor = FALSE, !.by = "copy",
                                  !.data = @ + front, !.tail = @ + front,
                                  !.end = @ + front + back,
                                  !.nh = moved(@), !.h_raw = moved(@)]],
             buf |-> [S.buf EXCEPT ![b] =
                        AllocBuf(b, FALSE, n, p.data + front, View(S.pkt, S.buf, h))]]
  IN S1

CopyTo(S, h, front, back) == Drop(Copy(S, h, front, back), h)

CanCopy(S, h, front, back) ==
  /\ NewPkt(S.pkt) # 0 /\ NewBuf(S.buf) # 0
  /\ buffer_length(S.pkt[h]) + front + back <= MaxBufLen

expensive_uniqueify(S, h) == CopyTo(S, h, 0, 0)

\* the headroom missing for nb more bytes is added in front
PushExtra(p, nb) == IF headroom(p) >= nb THEN 0 ELSE nb
expensive_push(S, h, nb) ==
  LET q == NewPkt(S.pkt)
      S1 == CopyTo(S, h, PushExtra(S.pkt[h], nb), 0)
  IN [S1 EXCEPT !.pkt[q].data = @ - nb]

PutExtra(p, nb) == IF tailroom(p) >= nb THEN 0 ELSE nb
expensive_put(S, h, nb) ==
  LET q == NewPkt(S.pkt)
      S1 == CopyTo(S, h, 0, PutExtra(S.pkt[h], nb))
  IN [S1 EXCEPT !.pkt[q].tail = @ + nb]

\* ------------------------------------------------------- the inline members
\* a heap together with the handle the call returns
With(S, r) == [pkt |-> S.pkt, buf |-> S.buf, r |-> r]

\* uniqueify() with the test inverted
UniqueifyInPlace_Inverted(p) == shared(p)

\* uniqueify() that never copies
UniqueifyInPlace_Always(p) == TRUE

\* uniqueify(): "if (!shared()) return this"
UniqueifyInPlace(p) == ~shared(p)

uniqueify(S, h) ==
  IF UniqueifyInPlace(S.pkt[h])
  THEN With(S, h)
  ELSE With(expensive_uniqueify(S, h), NewPkt(S.pkt))

\* push() without the test of shared()
PushInPlace_Unchecked(p, nb) == headroom(p) >= nb

\* push(): "if (headroom() >= nbytes && !shared())"
PushInPlace(p, nb) == headroom(p) >= nb /\ ~shared(p)

push(S, h, nb) ==
  IF PushInPlace(S.pkt[h], nb)
  THEN With([S EXCEPT !.pkt[h].data = @ - nb], h)
  ELSE With(expensive_push(S, h, nb), NewPkt(S.pkt))

\* nonunique_push(): "if (headroom() >= nbytes)"
\* nonunique_push() copying a shared packet, as push() does
NonuniquePushInPlace_Unshared(p, nb) == headroom(p) >= nb /\ ~shared(p)

NonuniquePushInPlace(p, nb) == headroom(p) >= nb

nonunique_push(S, h, nb) ==
  IF NonuniquePushInPlace(S.pkt[h], nb)
  THEN With([S EXCEPT !.pkt[h].data = @ - nb], h)
  ELSE With(expensive_push(S, h, nb), NewPkt(S.pkt))

\* put() comparing with > where the code has >=
PutInPlace_Strict(p, nb) == tailroom(p) > nb /\ ~shared(p)

\* put(): "if (tailroom() >= nbytes && !shared())"
PutInPlace(p, nb) == tailroom(p) >= nb /\ ~shared(p)

put(S, h, nb) ==
  IF PutInPlace(S.pkt[h], nb)
  THEN With([S EXCEPT !.pkt[h].tail = @ + nb], h)
  ELSE With(expensive_put(S, h, nb), NewPkt(S.pkt))

\* nonunique_put(): "if (tailroom() >= nbytes)"
NonuniquePutInPlace(p, nb) == tailroom(p) >= nb

nonunique_put(S, h, nb) ==
  IF NonuniquePutInPlace(S.pkt[h], nb)
  THEN With([S EXCEPT !.pkt[h].tail = @ + nb], h)
  ELSE With(expensive_put(S, h, nb), NewPkt(S.pkt))

\* pull() and take() without the clamp
Clamp_Missing(p, nb) == nb

\* pull() and take() clamping to the end of the buffer instead of the tail
Clamp_ToEnd(p, nb) == IF nb > length(p) THEN p.end - p.data ELSE nb

\* pull() and take(): "if (nbytes > length()) nbytes = length()"
Clamp(p, nb) == IF nb > length(p) THEN length(p) ELSE nb

\* pull() and take(): the click_chatter of "if (nbytes > length())"
Chatter(p, nb) == nb > length(p)

pull(p, nb) == [p EXCEPT !.data = @ + Clamp(p, nb)]

\* take() moving the front of the packet, as pull() does
take_Front(p, nb) == [p EXCEPT !.data = @ + Clamp(p, nb)]

take(p, nb) == [p EXCEPT !.tail = @ - Clamp(p, nb)]

\* set_network_header(h, len): "_nh.raw = h; _h_raw = h + len"
set_network_header(p, h, len) == [p EXCEPT !.nh = h, !.h_raw = h + len]

\* set_user_anno_c(i, v), with the annotation area _cb as one value
set_user_anno_c(p, v) == [p EXCEPT !.cb = v]

\* clear_annotations(): the annotation area is zeroed and
\* set_network_header(0, 0) unsets both header pointers
clear_annotations(p) ==
  [set_network_header(p, Null, 0) EXCEPT !.cb = 0, !.dst_ip = 0,
                                         !.pkt_type = 0, !.timestamp = 0]

\* the annotation area holds the destination address (dst_ip) and the user
\* flags (cb); the packet type and the timestamp are members of their own
set_dst_ip_anno(p, a) == [p EXCEPT !.dst_ip = a]

set_packet_type_anno(p, t) == [p EXCEPT !.pkt_type = t]

set_timestamp_anno(p, tv) == [p EXCEPT !.timestamp = tv]

\* device_anno() at user level: "return 0"; set_device_anno() does nothing
device_anno(p) == 0

\* copy_annotations() leaving the destination's timestamp as it was
copy_annotations_NoTimestamp(p, src) ==
  [p EXCEPT !.dst_ip = src.dst_ip, !.cb = src.cb, !.pkt_type = src.pkt_type]

\* copy_annotations(src): "*anno() = *p->anno()", then the packet type, the
\* device and the timestamp
copy_annotations(p, src) ==
  [p EXCEPT !.dst_ip = src.dst_ip, !.cb = src.cb,
            !.pkt_type = src.pkt_type, !.timestamp = src.timestamp]

\* ------------------------------------------- CheckTCPHeader, CheckUDPHeader
\* One element, of either class.  The header fields are the values the
\* element reads through ip_header() and tcp_header() / udp_header(); they,
\* the outcome of the checksum over the bytes, and the number of bytes that
\* lie between the transport header and tail are inputs, in bytes on the wire.
IP_PROTO_TCP == 6
IP_PROTO_UDP == 17
SizeofTcp == 20     \* sizeof(click_tcp)
SizeofUdp == 8      \* sizeof(click_udp)

\* ip_len and th_off of the TCP packets that arrive, over an IP header of 20
\* bytes and with 20 bytes of TCP in the packet: a well-formed one; ip_len
\* leaving less than the TCP header; a data offset below the header size;
\* ip_len claiming more than the packet holds; ip_len below the IP header
TcpLens == {<<40, 5>>, <<36, 5>>, <<40, 4>>, <<60, 5>>, <<16, 5>>}
\* uh_ulen of the UDP packets that arrive, with 8 bytes of UDP in the packet
UdpLens == {7, 8, 16}

Headers(tcp) ==
  IF tcp
  THEN {[ip_p |-> p, ip_hl |-> 5, ip_len |-> l[1], th_off |-> l[2],
         uh_ulen |-> 0, uh_sum |-> 0, sum_ok |-> ok, avail |-> SizeofTcp] :
          p \in {IP_PROTO_TCP, IP_PROTO_UDP}, l \in TcpLens, ok \in BOOLEAN}
  ELSE [ip_p : {IP_PROTO_TCP, IP_PROTO_UDP}, ip_hl : {5}, ip_len : {0},
        th_off : {0}, uh_ulen : UdpLens, uh_sum : {0, 1}, sum_ok : BOOLEAN,
        avail : {SizeofUdp}]

NoHeader ==
  [ip_p |-> 0, ip_hl |-> 0, ip_len |-> 0, th_off |-> 0, uh_ulen |-> 0,
   uh_sum |-> 0, sum_ok |-> FALSE, avail |-> 0]

\* reason_texts, in declaration order
Reasons == <<"not this protocol", "bad packet length", "bad checksum">>

\* unsigned arithmetic.  The operands here are header fields below 2^16, and a
\* difference that wraps is kept modulo 2^30, the largest power the model
\* checker's integers hold: like the 32-bit value it is larger than every
\* header field and every packet, so each comparison comes out as in the code.
U32(x) == x % 1073741824

NoResult ==
  [h |-> 0, hn |-> FALSE, d |-> NoHeader, why |-> 0, ret |-> 0,
   th_read |-> FALSE, cksum |-> Null, logged |-> FALSE]

\* per worker thread: where it is in simple_action() / drop(), on which
\* packet, the reason it drops for, and the value of _drops it tested
AtRest == [pc |-> "idle", h |-> 0, why |-> 0, reg |-> 0]

\* the element after the constructor and configure()
Configured(tcp, verbose, details, checksum, noutputs) ==
  [tcp |-> tcp, verbose |-> verbose, details |-> details,
   checksum |-> checksum, noutputs |-> noutputs,
   count |-> 0, drops |-> 0, reason_drops |-> [r \in 1..Len(Reasons) |-> 0],
   logs |-> 0, out1 |-> {}, killed |-> {}, seen |-> 0,
   last |-> NoResult, w |-> [t \in Threads |-> AtRest]]

\* logs: the number of click_chatter calls made; out1: the packets pushed to
\* output 1; killed: the packets drop() called kill() on; seen: the packets
\* that have entered simple_action
\* the outcome of the checks: why = 0 when the packet passes, else the index
\* of the reason; th_read: a field of the transport header was read;
\* cksum: the byte count handed to click_in_cksum, Null when none was computed
Verdict(why, th_read, cksum) ==
  [why |-> why, th_read |-> th_read, cksum |-> cksum]

\* the protocol test taken without has_network_header()
WrongProtocol_Unguarded(hn, d, proto) == d.ip_p # proto

\* "!p->has_network_header() || iph->ip_p != IP_PROTO_TCP" (or _UDP)
WrongProtocol(hn, d, proto) == ~hn \/ d.ip_p # proto

\* "tcph_len < sizeof(click_tcp) || len < tcph_len"
TcpBadLength(tcph_len, len) == tcph_len < SizeofTcp \/ len < tcph_len

\* "len < sizeof(click_udp)"
UdpBadLength(len) == len < SizeofUdp

\* the UDP checksum taken although the wire field says there is none
UdpHasChecksum_Always(d) == TRUE

\* "udph->uh_sum != 0"
UdpHasChecksum(d) == d.uh_sum # 0

\* CheckTCPHeader::simple_action up to the call of drop() or the "_count++"
tcp_check(hn, d, checksum) ==
  LET iph_len == U32(d.ip_hl * 4)
      len == U32(d.ip_len - iph_len)
      tcph_len == U32(d.th_off * 4)
  IN IF WrongProtocol(hn, d, IP_PROTO_TCP) THEN Verdict(1, FALSE, Null)
     ELSE IF TcpBadLength(tcph_len, len) THEN Verdict(2, TRUE, Null)
     ELSE IF checksum
          THEN IF ~d.sum_ok THEN Verdict(3, TRUE, len) ELSE Verdict(0, TRUE, len)
          ELSE Verdict(0, TRUE, Null)

\* CheckUDPHeader::simple_action up to the call of drop() or the "_count++"
udp_check(hn, d, checksum) ==
  LET len == U32(d.uh_ulen)
  IN IF WrongProtocol(hn, d, IP_PROTO_UDP) THEN Verdict(1, FALSE, Null)
     ELSE IF UdpBadLength(len) THEN Verdict(2, TRUE, Null)
     ELSE IF UdpHasChecksum(d) /\ checksum
          THEN IF ~d.sum_ok THEN Verdict(3, TRUE, len) ELSE Verdict(0, TRUE, len)
          ELSE Verdict(0, TRUE, Null)

check(E, hn, d) ==
  IF E.tcp THEN tcp_check(hn, d, E.checksum) ELSE udp_check(hn, d, E.checksum)

\* drop(): "_drops == 0 || _verbose"
LogsDrop(E) == E.drops = 0 \/ E.verbose

\* drop(): the per-reason counters left alone
HasDetails_Never(E) == FALSE

\* drop(): "if (_reason_drops)", allocated by configure() when DETAILS
HasDetails(E) == E.details

\* drop(): the second output used although it is not there
TwoOutputs_Any(E) == E.noutputs >= 1

\* drop(): "noutputs() == 2"
TwoOutputs(E) == E.noutputs = 2

\* drop(): the packet goes to output 1, or is killed
dispose(E, S, h) ==
  IF TwoOutputs(E)
  THEN [chk |-> [E EXCEPT !.out1 = @ \cup {h}],
        pkt |-> [S.pkt EXCEPT ![h].held = FALSE], buf |-> S.buf]
  ELSE [chk |-> [E EXCEPT !.killed = @ \cup {h}],
        pkt |-> Drop(S, h).pkt, buf |-> Drop(S, h).buf]

\* drop(reason, p)
drop(E, S, why, h) ==
  dispose([E EXCEPT !.logs = IF LogsDrop(E) THEN @ + 1 ELSE @,
                    !.drops = @ + 1,
                    !.reason_drops = IF HasDetails(E)
                                     THEN [@ EXCEPT ![why] = @ + 1] ELSE @],
          S, h)

\* simple_action(p); the value returned is last.ret
simple_action(E, S, h, d) ==
  LET hn == has_network_header(S.pkt[h])
      v == check(E, hn, d)
      F == [E EXCEPT !.seen = @ + 1,
                     !.last = [h |-> h, hn |-> hn, d |-> d, why |-> v.why,
                               ret |-> IF v.why = 0 THEN h ELSE 0,
                               th_read |-> v.th_read, cksum |-> v.cksum,
                               logged |-> v.why # 0 /\ LogsDrop(E)]]
  IN IF v.why # 0
     THEN drop(F, S, v.why, h)
     ELSE [chk |-> [F EXCEPT !.count = @ + 1], pkt |-> S.pkt, buf |-> S.buf]

\* ---------------------------------------------------------------- actions
Set(S) == pkt' = S.pkt /\ buf' = S.buf

\* how many Packet objects and buffers have been constructed so far
Allocs(P, B) ==
  <<Cardinality({i \in Pkts : P[i].st # "unused"}),
    Cardinality({b \in Bufs : B[b].st # "unused"})>>

NoCall ==
  [op |-> "none", h |-> 0, nb |-> 0, r |-> 0, w |-> FALSE, log |-> FALSE,
   pre |-> NoPkt("unused"), view |-> <<>>, allocs |-> <<0, 0>>]

\* op was called on handle h with byte count nb and returned handle r (0 for
\* void), of static type WritablePacket * when w; log: the call wrote a
\* diagnostic
Called(op, h, nb, r, w) ==
  /\ ops < MaxOps
  /\ ops' = ops + 1
  /\ UNCHANGED <<thr, chk>>
  /\ call' = [op |-> op, h |-> h, nb |-> nb, r |-> r, w |-> w,
              log |-> op \in {"pull", "take"} /\ Chatter(pkt[h], nb),
              pre |-> IF h \in Pkts THEN pkt[h] ELSE NoPkt("unused"),
              view |-> IF h \in Pkts THEN View(pkt, buf, h) ELSE <<>>,
              allocs |-> Allocs(pkt, buf)]

CanMake == NewPkt(pkt) # 0 /\ NewBuf(buf) # 0 /\ Allocs(pkt, buf)[2] < MaxMake

\* make(len): make(DEFAULT_HEADROOM, 0, len, 0)
Make ==
  \E len \in 1..MaxLen :
    /\ CanMake
    /\ AllocLen(Headroom, len, 0) <= MaxBufLen
    /\ Set(make(Heap, Headroom, len, 0))
    /\ Called("make", 0, len, NewPkt(pkt), TRUE)

Import ==
  \E len \in 1..MaxLen :
    /\ CanMake
    /\ Set(import(Heap, len))
    /\ Called("import", 0, len, NewPkt(pkt), TRUE)

Clone(h) ==
  /\ h \in Held(pkt)
  /\ NewPkt(pkt) # 0
  /\ Set(clone(Heap, h))
  /\ Called("clone", h, 0, NewPkt(pkt), FALSE)

Uniqueify(h) ==
  /\ h \in Held(pkt)
  /\ UniqueifyInPlace(pkt[h]) \/ CanCopy(Heap, h, 0, 0)
  /\ Set(uniqueify(Heap, h))
  /\ Called("uniqueify", h, 0, uniqueify(Heap, h).r, TRUE)

Push(h, nb) ==
  /\ h \in Held(pkt)
  /\ PushInPlace(pkt[h], nb) \/ CanCopy(Heap, h, PushExtra(pkt[h], nb), 0)
  /\ Set(push(Heap, h, nb))
  /\ Called("push", h, nb, push(Heap, h, nb).r, TRUE)

NonuniquePush(h, nb) ==
  /\ h \in Held(pkt)
  /\ NonuniquePushInPlace(pkt[h], nb) \/ CanCopy(Heap, h, PushExtra(pkt[h], nb), 0)
  /\ Set(nonunique_push(Heap, h, nb))
  /\ Called("nonunique_push", h, nb, nonunique_push(Heap, h, nb).r, FALSE)

Pull(h, nb) ==
  /\ h \in Held(pkt)
  /\ pkt' = [pkt EXCEPT ![h] = pull(@, nb)]
  /\ UNCHANGED buf
  /\ Called("pull", h, nb, 0, FALSE)

Put(h, nb) ==
  /\ h \in Held(pkt)
  /\ PutInPlace(pkt[h], nb) \/ CanCopy(Heap, h, 0, PutExtra(pkt[h], nb))
  /\ Set(put(Heap, h, nb))
  /\ Called("put", h, nb, put(Heap, h, nb).r, TRUE)

NonuniquePut(h, nb) ==
  /\ h \in Held(pkt)
  /\ NonuniquePutInPlace(pkt[h], nb) \/ CanCopy(Heap, h, 0, PutExtra(pkt[h], nb))
  /\ Set(nonunique_put(Heap, h, nb))
  /\ Called("nonunique_put", h, nb, nonunique_put(Heap, h, nb).r, FALSE)

Take(h, nb) ==
  /\ h \in Held(pkt)
  /\ pkt' = [pkt EXCEPT ![h] = take(@, nb)]
  /\ UNCHANGED buf
  /\ Called("take", h, nb, 0, FALSE)

Kill(h) ==
  /\ h \in Held(pkt)
  /\ Set(Drop(Heap, h))
  /\ Called("kill", h, 0, 0, FALSE)

\* set_network_header(data() + off, len)
SetNetworkHeader(h, off, len) ==
  /\ h \in Held(pkt)
  /\ pkt' = [pkt EXCEPT ![h] = set_network_header(@, @.data + off, len)]
  /\ UNCHANGED buf
  /\ Called("set_network_header", h, len, 0, FALSE)

SetUserAnno(h, v) ==
  /\ h \in Held(pkt)
  /\ pkt' = [pkt EXCEPT ![h] = set_user_anno_c(@, v)]
  /\ UNCHANGED buf
  /\ Called("set_user_anno", h, v, 0, FALSE)

\* the bytes stored so far through WritablePackets
WrittenCells(B) ==
  Cardinality({c \in Bufs \X (1..MaxBufLen) :
                 c[2] <= Len(B[c[1]].bytes) /\ B[c[1]].bytes[c[2]] = Written})

\* the caller stores a byte at data()[off] of the WritablePacket the last
\* call returned
Write(off) ==
  /\ call.w /\ call.r \in Held(pkt)
  /\ WrittenCells(buf) < MaxWrites
  /\ off \in 0..(length(pkt[call.r]) - 1)
  /\ pkt[call.r].buf \in Bufs
  /\ pkt[call.r].data + off + 1 \in 1..Len(buf[pkt[call.r].buf].bytes)
  /\ buf' = [buf EXCEPT ![pkt[call.r].buf].bytes[pkt[call.r].data + off + 1] = Written]
  /\ UNCHANGED pkt
  /\ Called("write", call.r, off, call.r, TRUE)

Init ==
  /\ pkt = [i \in Pkts |-> NoPkt("unused")]
  /\ buf = [i \in Bufs |-> NoBuf]
  /\ call = NoCall
  /\ ops = 0
  /\ thr = [t \in Threads |-> Idle]
  /\ chk = Configured(TRUE, FALSE, FALSE, TRUE, 1)

Next ==
  \/ Make
  \/ Import
  \/ \E h \in Pkts : Clone(h)
  \/ \E h \in Pkts : Uniqueify(h)
  \/ \E h \in Pkts, nb \in Counts : Push(h, nb)
  \/ \E h \in Pkts, nb \in Counts : NonuniquePush(h, nb)
  \/ \E h \in Pkts, nb \in Counts : Pull(h, nb)
  \/ \E h \in Pkts, nb \in Counts : Put(h, nb)
  \/ \E h \in Pkts, nb \in Counts : NonuniquePut(h, nb)
  \/ \E h \in Pkts, nb \in Counts : Take(h, nb)
  \/ \E h \in Pkts : Kill(h)
  \/ \E off \in 0..(MaxBufLen - 1) : Write(off)

Spec == Init /\ [][Next]_vars

\* the calls that set, move and copy header pointers and annotations
NextAnno ==
  \/ Make
  \/ Import
  \/ \E h \in Pkts : Clone(h)
  \/ \E h \in Pkts : Uniqueify(h)
  \/ \E h \in Pkts, nb \in Counts : Pull(h, nb)
  \/ \E h \in Pkts : Kill(h)
  \/ \E h \in Pkts, off \in 0..MaxHdr, len \in 0..MaxHdr : SetNetworkHeader(h, off, len)
  \/ \E h \in Pkts, v \in 0..MaxAnno : SetUserAnno(h, v)

SpecAnno == Init /\ [][NextAnno]_vars

\* the largest unsigned, and the unsigned values a caller passes that are
\* near it
UintMax == U32(0 - 1)
Huge == {UintMax - 1, UintMax}

\* pointer + n.  Within the buffer it is the sum; a sum beyond the end of
\* the buffer is whatever the machine makes of it: the sum itself where a
\* pointer is wider than an unsigned, or the sum wrapped around the address
\* space (wraps).
PtrAdd(ptr, n, en, wraps) ==
  IF ptr + n > en /\ wraps THEN ptr + n - (UintMax + 1) ELSE ptr + n

\* change_headroom_and_length(headroom, length):
\* "if (headroom + length <= buffer_length())", the sum being unsigned
change_headroom_and_length(p, hr, len, wraps) ==
  IF U32(hr + len) <= buffer_length(p)
  THEN [p EXCEPT !.data = PtrAdd(p.head, hr, p.end, wraps),
                 !.tail = PtrAdd(PtrAdd(p.head, hr, p.end, wraps), len, p.end, wraps)]
  ELSE p

ChangeHeadroomAndLength(h, hr, len, wraps) ==
  /\ h \in Held(pkt)
  /\ pkt' = [pkt EXCEPT ![h] = change_headroom_and_length(@, hr, len, wraps)]
  /\ UNCHANGED buf
  /\ Called("change_headroom_and_length", h, <<hr, len>>, 0, FALSE)

\* the pointers of Packet h lie within its buffer; a Packet whose pointers
\* have left the buffer is not used any further
Within(h) ==
  /\ pkt[h].head <= pkt[h].data /\ pkt[h].data <= pkt[h].tail
  /\ pkt[h].tail <= pkt[h].end

\* packets whose data and tail pointers are set outright
NextResize ==
  \/ Make
  \/ \E h \in Pkts, nb \in Counts : Within(h) /\ Pull(h, nb)
  \/ \E h \in Pkts, hr \in Counts \cup Huge, len \in Counts \cup Huge,
        wraps \in BOOLEAN :
          Within(h) /\ ChangeHeadroomAndLength(h, hr, len, wraps)

SpecResize == Init /\ [][NextResize]_vars

SetDstIpAnno(h, a) ==
  /\ h \in Held(pkt)
  /\ pkt' = [pkt EXCEPT ![h] = set_dst_ip_anno(@, a)]
  /\ UNCHANGED buf
  /\ Called("set_dst_ip_anno", h, a, 0, FALSE)

SetPacketTypeAnno(h, t) ==
  /\ h \in Held(pkt)
  /\ pkt' = [pkt EXCEPT ![h] = set_packet_type_anno(@, t)]
  /\ UNCHANGED buf
  /\ Called("set_packet_type_anno", h, t, 0, FALSE)

SetTimestampAnno(h, tv) ==
  /\ h \in Held(pkt)
  /\ pkt' = [pkt EXCEPT ![h] = set_timestamp_anno(@, tv)]
  /\ UNCHANGED buf
  /\ Called("set_timestamp_anno", h, tv, 0, FALSE)

\* h->copy_annotations(src); the call record keeps src as its argument
CopyAnnotations(h, src) ==
  /\ h \in Held(pkt) /\ src \in Held(pkt)
  /\ pkt' = [pkt EXCEPT ![h] = copy_annotations(@, pkt[src])]
  /\ UNCHANGED buf
  /\ Called("copy_annotations", h, src, 0, FALSE)

\* packets that are annotated and copy each other's annotations
NextCopy ==
  \/ Make
  \/ \E h \in Pkts : Clone(h)
  \/ \E h \in Pkts : Pull(h, 1)
  \/ \E h \in Pkts : SetNetworkHeader(h, 0, MaxHdr)
  \/ \E h \in Pkts, v \in 0..MaxAnno : SetUserAnno(h, v)
  \/ \E h \in Pkts, v \in 0..MaxAnno : SetDstIpAnno(h, v)
  \/ \E h \in Pkts, v \in 0..MaxAnno : SetPacketTypeAnno(h, v)
  \/ \E h \in Pkts, v \in 0..MaxAnno : SetTimestampAnno(h, v)
  \/ \E h \in Pkts, src \in Pkts : CopyAnnotations(h, src)

SpecCopy == Init /\ [][NextCopy]_vars

\* a protocol element marks a header that lies within the packet:
\* set_network_header(data() + off, len) with off + len <= length()
SetHeaderWithin(h, off, len) ==
  /\ h \in Held(pkt)
  /\ off + len <= length(pkt[h])
  /\ SetNetworkHeader(h, off, len)

\* the calls that set header pointers and then resize the packet
NextHdr ==
  \/ Make
  \/ \E h \in Pkts, off \in 0..MaxHdr, len \in 0..MaxHdr : SetHeaderWithin(h, off, len)
  \/ \E h \in Pkts, nb \in Counts : Push(h, nb)
  \/ \E h \in Pkts, nb \in Counts : Pull(h, nb)
  \/ \E h \in Pkts, nb \in Counts : Put(h, nb)
  \/ \E h \in Pkts, nb \in Counts : Take(h, nb)

SpecHdr == Init /\ [][NextHdr]_vars

\* ------------------------------------------------------- worker threads
\* kill() as the machine runs it on the plain int _use_count: the count is
\* loaded, then the decremented value is stored and tested.  Threads are
\* handed handles once the packets have been set up.
Quiet == \A t \in Threads : thr[t].pc = "idle"

\* thread t is given handle h and enters h->kill()
StartKill(t, h) ==
  /\ thr[t].pc = "idle"
  /\ h \in Held(pkt)
  /\ pkt' = [pkt EXCEPT ![h].held = FALSE]
  /\ thr' = [thr EXCEPT ![t] = [pc |-> "load", obj |-> h, reg |-> 0]]
  /\ UNCHANGED <<buf, call, ops, chk>>

\* thread t is given the shared handle h and enters h->uniqueify(): the copy
\* is made, then the original is given up through kill()
StartUniqueify(t, h) ==
  /\ thr[t].pc = "idle"
  /\ h \in Held(pkt)
  /\ ~UniqueifyInPlace(pkt[h])
  /\ CanCopy(Heap, h, 0, 0)
  /\ Set([Copy(Heap, h, 0, 0) EXCEPT !.pkt[h].held = FALSE])
  /\ thr' = [thr EXCEPT ![t] = [pc |-> "load", obj |-> h, reg |-> 0]]
  /\ UNCHANGED <<call, ops, chk>>

\* "--_use_count": the load
Load(t) ==
  /\ thr[t].pc = "load"
  /\ thr' = [thr EXCEPT ![t].pc = "store", ![t].reg = pkt[thr[t].obj].use_count]
  /\ UNCHANGED <<pkt, buf, call, ops, chk>>

\* "--_use_count <= 0": the store and the test; "delete this" runs ~Packet,
\* which either releases the buffer or enters kill() on _data_packet
Store(t) ==
  LET o == thr[t].obj
      c == thr[t].reg - 1
      p == pkt[o]
  IN /\ thr[t].pc = "store"
     /\ IF p.st # "live"
        THEN UNCHANGED <<pkt, buf>> /\ thr' = [thr EXCEPT ![t] = Idle]
        ELSE IF ~KillDeletes(c)
        THEN /\ pkt' = [pkt EXCEPT ![o].use_count = c]
             /\ UNCHANGED buf
             /\ thr' = [thr EXCEPT ![t] = Idle]
        ELSE IF p.data_packet # 0
        THEN /\ pkt' = [pkt EXCEPT ![o] = NoPkt("deleted")]
             /\ UNCHANGED buf
             /\ thr' = [thr EXCEPT ![t] = [pc |-> "load", obj |-> p.data_packet, reg |-> 0]]
        ELSE /\ Set(FreeBuffer([Heap EXCEPT !.pkt[o] = NoPkt("deleted")], p))
             /\ thr' = [thr EXCEPT ![t] = Idle]
     /\ UNCHANGED <<call, ops, chk>>

NextMT ==
  \/ Quiet /\ Make
  \/ Quiet /\ Import
  \/ \E h \in Pkts : Quiet /\ Clone(h)
  \/ \E t \in Threads, h \in Pkts : StartKill(t, h)
  \/ \E t \in Threads, h \in Pkts : StartUniqueify(t, h)
  \/ \E t \in Threads : Load(t)
  \/ \E t \in Threads : Store(t)

SpecMT == Init /\ [][NextMT]_vars

\* ------------------------------------------------ a header checker at work
\* the element is of either class, configured in any way, with one or two
\* outputs
InitCheck ==
  /\ pkt = [i \in Pkts |-> NoPkt("unused")]
  /\ buf = [i \in Bufs |-> NoBuf]
  /\ call = NoCall
  /\ ops = 0
  /\ thr = [t \in Threads |-> Idle]
  /\ \E tcp \in BOOLEAN, verbose \in BOOLEAN, details \in BOOLEAN,
        checksum \in BOOLEAN, noutputs \in 1..2 :
       chk = Configured(tcp, verbose, details, checksum, noutputs)

\* the call bookkeeping of Called, for the calls that change the element
Entered(op, h, r) ==
  /\ ops < MaxOps
  /\ ops' = ops + 1
  /\ UNCHANGED thr
  /\ call' = [op |-> op, h |-> h, nb |-> 0, r |-> r, w |-> FALSE, log |-> FALSE,
              pre |-> pkt[h], view |-> View(pkt, buf, h),
              allocs |-> Allocs(pkt, buf)]

ClearAnnotations(h) ==
  /\ h \in Held(pkt)
  /\ pkt' = [pkt EXCEPT ![h] = clear_annotations(@)]
  /\ UNCHANGED buf
  /\ Called("clear_annotations", h, 0, 0, FALSE)

\* the packet behind handle h arrives at the element, with header fields d
SimpleAction(h, d) ==
  /\ h \in Held(pkt)
  /\ chk.seen < MaxSeen
  /\ d \in Headers(chk.tcp)
  /\ chk' = simple_action(chk, Heap, h, d).chk
  /\ Set(simple_action(chk, Heap, h, d))
  /\ Entered("simple_action", h, simple_action(chk, Heap, h, d).chk.last.ret)

\* the packets are built upstream before the first of them reaches the
\* element
Upstream == chk.seen = 0 /\ ops < MaxSetup

NextCheck ==
  \/ Upstream /\ Make
  \/ \E h \in Pkts : Upstream /\ Clone(h)
  \/ \E h \in Pkts : Upstream /\ SetNetworkHeader(h, 0, MaxHdr)
  \/ \E h \in Pkts : Upstream /\ ClearAnnotations(h)
  \/ \E h \in Pkts, d \in Headers(chk.tcp) : SimpleAction(h, d)

SpecCheck == InitCheck /\ [][NextCheck]_vars

\* ------------------------------------- worker threads in a header checker
\* simple_action() and drop() as worker threads run them on one element: the
\* test of _drops, the increments of the atomic_uint64_t counters, and the
\* push or kill are steps of their own.
AllAtRest == \A t \in Threads : chk.w[t].pc = "idle"

\* "_drops++" storing one more than the value tested before
FetchAdd_Stale(cur, tested) == tested + 1

\* "_drops++" on an atomic_uint64_t: one more than the value it holds now
FetchAdd(cur, tested) == cur + 1

\* thread t takes the packet behind handle h into simple_action(), up to the
\* call of drop() or the "_count++"
Enter(t, h, d) ==
  LET v == check(chk, has_network_header(pkt[h]), d)
  IN /\ chk.w[t].pc = "idle"
     /\ h \in Held(pkt)
     /\ chk.seen < MaxSeen
     /\ d \in Headers(chk.tcp)
     /\ pkt' = [pkt EXCEPT ![h].held = FALSE]
     /\ chk' = [chk EXCEPT !.seen = @ + 1,
                           !.w[t] = [pc |-> IF v.why = 0 THEN "count" ELSE "test",
                                     h |-> h, why |-> v.why, reg |-> 0]]
     /\ UNCHANGED <<buf, call, ops, thr>>

\* drop(): "if (_drops == 0 || _verbose) click_chatter(...)"
Test(t) ==
  /\ chk.w[t].pc = "test"
  /\ chk' = [chk EXCEPT !.logs = IF LogsDrop(chk) THEN @ + 1 ELSE @,
                        !.w[t].reg = chk.drops,
                        !.w[t].pc = "inc"]
  /\ UNCHANGED <<pkt, buf, call, ops, thr>>

\* drop(): "_drops++"
IncDrops(t) ==
  /\ chk.w[t].pc = "inc"
  /\ chk' = [chk EXCEPT !.drops = FetchAdd(@, chk.w[t].reg),
                        !.w[t].pc = "detail"]
  /\ UNCHANGED <<pkt, buf, call, ops, thr>>

\* drop(): "if (_reason_drops) _reason_drops[reason]++"
IncReason(t) ==
  /\ chk.w[t].pc = "detail"
  /\ chk' = [chk EXCEPT !.reason_drops =
                          IF HasDetails(chk)
                          THEN [@ EXCEPT ![chk.w[t].why] = @ + 1] ELSE @,
                        !.w[t].pc = "out"]
  /\ UNCHANGED <<pkt, buf, call, ops, thr>>

\* drop(): the push to output 1 or the kill, and the return
Out(t) ==
  LET E == [chk EXCEPT !.w[t] = AtRest]
  IN /\ chk.w[t].pc = "out"
     /\ chk' = dispose(E, Heap, chk.w[t].h).chk
     /\ Set(dispose(E, Heap, chk.w[t].h))
     /\ UNCHANGED <<call, ops, thr>>

\* simple_action(): "_count++; return p"
Count(t) ==
  /\ chk.w[t].pc = "count"
  /\ chk' = [chk EXCEPT !.count = FetchAdd(@, @), !.w[t] = AtRest]
  /\ pkt' = [pkt EXCEPT ![chk.w[t].h].held = TRUE]
  /\ UNCHANGED <<buf, call, ops, thr>>

NextCheckMT ==
  \/ Upstream /\ Make
  \/ \E h \in Pkts : Upstream /\ Clone(h)
  \/ \E h \in Pkts : Upstream /\ SetNetworkHeader(h, 0, MaxHdr)
  \/ \E t \in Threads, h \in Pkts, d \in Headers(chk.tcp) : Enter(t, h, d)
  \/ \E t \in Threads : Test(t)
  \/ \E t \in Threads : IncDrops(t)
  \/ \E t \in Threads : IncReason(t)
  \/ \E t \in Threads : Out(t)
  \/ \E t \in Threads : Count(t)

SpecCheckMT == InitCheck /\ [][NextCheckMT]_vars

\* ================================================================ claims
Range(f) == {f[i] : i \in DOMAIN f}

Live(P) == {h \in Pkts : P[h].st = "live"}

\* C1: copy-on-write isolation.  A push, put or uniqueify on handle A, and a
\* byte stored through the WritablePacket such a call returned, leaves every
\* other handle B usable and the bytes in B's [data, tail) as they were.
C1_Isolation ==
  [][call'.op \in {"push", "put", "uniqueify", "write"} =>
       \A b \in Held(pkt) \ {call'.h} :
          /\ b \in Held(pkt')
          /\ View(pkt', buf', b) = View(pkt, buf, b)]_vars

\* a byte has been stored through the private copy that a call on one handle of
\* a cloned packet returned, while another handle of the original buffer is
\* still in use and does not show the stored byte
C1_Witness ==
  /\ call.op = "write"
  /\ pkt[call.h].by = "copy"
  /\ \E b \in Held(pkt) \ {call.h} :
        /\ pkt[b].buf # pkt[call.h].buf
        /\ length(pkt[b]) > 0
        /\ Written \notin Range(View(pkt, buf, b))

\* C2: head <= data <= tail <= end for every Packet, after any sequence of
\* make, clone, uniqueify, push, nonunique_push, pull, put, nonunique_put and
\* take with any byte counts.
C2_Ordered ==
  \A h \in Live(pkt) :
     pkt[h].head <= pkt[h].data /\ pkt[h].data <= pkt[h].tail /\ pkt[h].tail <= pkt[h].end

\* pull or take was asked for more bytes than the packet had and left it empty
C2_Witness ==
  /\ call.op \in {"pull", "take"}
  /\ call.nb > length(call.pre)
  /\ length(call.pre) > 0
  /\ pkt[call.h].data = pkt[call.h].tail

\* C3: a buffer region is released exactly once, and only when the last handle
\* referring to it has been given up: never while a handle in use refers to
\* it, never twice, and no later than the last handle; the release callback
\* of an imported buffer runs exactly once, with the pointer and length that
\* were imported, and never for a buffer the allocator made.
C3_ReleasedOnce ==
  /\ \A h \in Held(pkt) : pkt[h].buf \in Bufs /\ buf[pkt[h].buf].st = "alloc"
  /\ \A b \in Bufs :
        /\ buf[b].st = "alloc" => buf[b].frees = 0 /\ \E h \in Held(pkt) : pkt[h].buf = b
        /\ buf[b].st = "freed" => buf[b].frees = 1
        /\ buf[b].st = "unused" => buf[b].frees = 0
        /\ buf[b].calls = IF buf[b].ext /\ buf[b].st = "freed"
                          THEN << <<0, buf[b].len>> >> ELSE <<>>

\* an imported buffer was cloned twice and released by the last of three kills
C3_Witness ==
  /\ call.op = "kill"
  /\ buf[1].ext /\ buf[1].st = "freed" /\ buf[1].calls # <<>>
  /\ \A h \in Pkts : pkt[h].st = "deleted"

\* C4: reference counts are updated atomically.  When worker threads kill or
\* uniqueify handles of one cloned packet at the same time, in every
\* interleaving no buffer is released twice, no thread is inside kill() on a
\* Packet that was deleted, and once the threads are done every buffer that
\* no handle refers to any more has been released.
C4_AtomicRelease ==
  /\ \A b \in Bufs : buf[b].frees <= 1
  /\ \A t \in Threads : thr[t].pc # "idle" => pkt[thr[t].obj].st = "live"
  /\ Quiet => \A b \in Bufs :
        buf[b].st = "alloc" => \E h \in Held(pkt) : pkt[h].buf = b

\* C5: shared() is true of a handle exactly when more than one handle in use
\* addresses its buffer or the handle was produced by clone(); right after
\* c = p->clone(), p and c are both shared and show the bytes p showed before.
C5_Shared ==
  /\ \A h \in Held(pkt) :
        shared(pkt[h]) <=>
          \/ Cardinality({g \in Held(pkt) : pkt[g].buf = pkt[h].buf}) > 1
          \/ pkt[h].by = "clone"
  /\ call.op = "clone" =>
        /\ shared(pkt[call.h]) /\ shared(pkt[call.r])
        /\ View(pkt, buf, call.h) = call.view
        /\ View(pkt, buf, call.r) = call.view

\* clone() has just returned a second handle of a packet that was unshared
C5_Witness ==
  /\ call.op = "clone"
  /\ ~shared(call.pre)
  /\ shared(pkt[call.h]) /\ shared(pkt[call.r])
  /\ length(pkt[call.r]) > 0

\* C6, as claimed: no clone or kill call on another handle makes a handle
\* that reported shared() stop reporting it.
C6_StaysShared ==
  [][call'.op \in {"clone", "kill"} =>
       \A h \in (Held(pkt) \cap Held(pkt')) \ {call'.h} :
          shared(pkt[h]) => shared(pkt'[h])]_vars

\* C6, amended: a handle produced by clone() reports shared() for as long as
\* it is in use; any other handle that reported shared() stops reporting it
\* only through a call on another handle, and only once no other Packet
\* refers to its buffer any more.
C6_SharedUntilAlone ==
  [][\A h \in Held(pkt) \cap Held(pkt') :
       /\ pkt[h].by = "clone" => shared(pkt[h]) /\ shared(pkt'[h])
       /\ shared(pkt[h]) /\ ~shared(pkt'[h]) =>
            /\ call'.h # h
            /\ \A g \in Live(pkt') \ {h} : pkt'[g].buf # pkt'[h].buf]_vars

\* the only clone of a handle has been killed and the handle, which is still
\* in use, is unshared again
C6_Witness ==
  /\ call.op = "kill"
  /\ call.pre.data_packet \in Held(pkt)
  /\ ~shared(pkt[call.pre.data_packet])

\* C7: uniqueify() on an unshared packet returns the same handle, constructs
\* no Packet and no buffer, and leaves every field and byte of the packet.
C7_UniqueifyUnshared ==
  (call.op = "uniqueify" /\ ~shared(call.pre)) =>
     /\ call.r = call.h
     /\ pkt[call.h] = call.pre
     /\ View(pkt, buf, call.h) = call.view
     /\ Allocs(pkt, buf) = call.allocs

\* uniqueify() has just been called on an unshared packet that holds bytes
C7_Witness ==
  /\ call.op = "uniqueify"
  /\ ~shared(call.pre)
  /\ length(call.pre) > 0
  /\ call.r = call.h

\* C8: uniqueify() on a shared packet returns a new, unshared handle on a
\* buffer of its own, with the headroom, length, tailroom, bytes, network and
\* transport header offsets and annotations the original had.
C8_UniqueifyShared ==
  (call.op = "uniqueify" /\ shared(call.pre)) =>
     /\ call.r # call.h
     /\ call.r \in Held(pkt)
     /\ ~shared(pkt[call.r])
     /\ pkt[call.r].buf # call.pre.buf
     /\ buf[pkt[call.r].buf].st = "alloc"
     /\ headroom(pkt[call.r]) = headroom(call.pre)
     /\ length(pkt[call.r]) = length(call.pre)
     /\ tailroom(pkt[call.r]) = tailroom(call.pre)
     /\ View(pkt, buf, call.r) = call.view
     /\ (pkt[call.r].nh = Null) = (call.pre.nh = Null)
     /\ network_header_offset(pkt[call.r]) = network_header_offset(call.pre)
     /\ transport_header_offset(pkt[call.r]) = transport_header_offset(call.pre)
     /\ pkt[call.r].cb = call.pre.cb

\* uniqueify() has just copied a shared packet that had bytes pulled, a
\* network header and an annotation set
C8_Witness ==
  /\ call.op = "uniqueify"
  /\ shared(call.pre)
  /\ call.r # call.h
  /\ headroom(call.pre) > 0 /\ length(call.pre) > 0
  /\ call.pre.nh # Null /\ call.pre.h_raw > call.pre.nh
  /\ call.pre.cb # 0

\* C9: push(n) works in place exactly when headroom >= n and the packet is
\* unshared: same handle, data moved back by n, nothing else changed; in
\* every other case it returns an unshared packet on another buffer, n bytes
\* longer, with the old bytes behind the n new ones.  put(n) takes the same
\* decision on the tailroom and grows the packet at its end.
C9_PushPut ==
  /\ call.op = "push" =>
        IF headroom(call.pre) >= call.nb /\ ~shared(call.pre)
        THEN /\ call.r = call.h
             /\ pkt[call.h] = [call.pre EXCEPT !.data = @ - call.nb]
             /\ SubSeq(View(pkt, buf, call.h), call.nb + 1, call.nb + Len(call.view))
                  = call.view
             /\ Allocs(pkt, buf) = call.allocs
        ELSE /\ call.r # call.h /\ call.r \in Held(pkt)
             /\ ~shared(pkt[call.r])
             /\ pkt[call.r].buf # call.pre.buf
             /\ length(pkt[call.r]) = length(call.pre) + call.nb
             /\ SubSeq(View(pkt, buf, call.r), call.nb + 1, call.nb + Len(call.view))
                  = call.view
  /\ call.op = "put" =>
        IF tailroom(call.pre) >= call.nb /\ ~shared(call.pre)
        THEN /\ call.r = call.h
             /\ pkt[call.h] = [call.pre EXCEPT !.tail = @ + call.nb]
             /\ SubSeq(View(pkt, buf, call.h), 1, Len(call.view)) = call.view
             /\ Allocs(pkt, buf) = call.allocs
        ELSE /\ call.r # call.h /\ call.r \in Held(pkt)
             /\ ~shared(pkt[call.r])
             /\ pkt[call.r].buf # call.pre.buf
             /\ length(pkt[call.r]) = length(call.pre) + call.nb
             /\ SubSeq(View(pkt, buf, call.r), 1, Len(call.view)) = call.view

\* push(n) has just copied a packet that had the headroom but was shared
C9_Witness ==
  /\ call.op = "push"
  /\ call.nb > 0
  /\ headroom(call.pre) >= call.nb /\ shared(call.pre)
  /\ length(call.pre) > 0
  /\ call.r # call.h

\* C10: on an unshared packet with the room for it, push(n) followed by
\* pull(n) gives back the data offset, the length and the bytes the packet
\* had, and so does put(n) followed by take(n) for the tail offset.
C10_RoundTrip ==
  [][\A h \in Pkts :
       /\ call.h = h /\ call.r = h
       /\ ~shared(call.pre)
       /\ \/ call.op = "push" /\ headroom(call.pre) >= call.nb /\ Pull(h, call.nb)
          \/ call.op = "put" /\ tailroom(call.pre) >= call.nb /\ Take(h, call.nb)
       => /\ pkt'[h].data = call.pre.data
          /\ pkt'[h].tail = call.pre.tail
          /\ length(pkt'[h]) = length(call.pre)
          /\ View(pkt', buf', h) = call.view]_vars

\* put(n) has just grown an unshared packet in place and take(n) can follow
C10_Witness ==
  /\ call.op = "put"
  /\ call.nb > 0
  /\ ~shared(call.pre) /\ tailroom(call.pre) >= call.nb
  /\ length(call.pre) > 0
  /\ call.r = call.h
  /\ ops < MaxOps

\* C11: pull(n) and take(n) with n greater than the length do not fail: they
\* write a diagnostic and act as pull(length) / take(length), leaving length 0
\* and data = tail; a call with n within the length writes no diagnostic;
\* pull never moves tail and take never moves data, and neither touches any
\* other field, any other Packet or any buffer.
C11_Clamped ==
  [][\A h \in Pkts :
       (call'.h = h /\ call'.op \in {"pull", "take"}) =>
         LET p == pkt[h]
             q == pkt'[h]
             n == call'.nb
         IN /\ q.st = "live"
            /\ call'.log = (n > length(p))
            /\ n > length(p) =>
                 /\ length(q) = 0 /\ q.data = q.tail
                 /\ call'.op = "pull" => q = pull(p, length(p))
                 /\ call'.op = "take" => q = take(p, length(p))
            /\ n <= length(p) => length(q) = length(p) - n
            /\ call'.op = "pull" => q = [p EXCEPT !.data = q.data] /\ q.data >= p.data
            /\ call'.op = "take" => q = [p EXCEPT !.tail = q.tail] /\ q.tail <= p.tail
            /\ buf' = buf
            /\ \A o \in Pkts \ {h} : pkt'[o] = pkt[o]]_vars

\* a pull and a take of more bytes than a non-empty packet holds
C11_Witness ==
  /\ call.op \in {"pull", "take"}
  /\ call.h \in Live(pkt)
  /\ call.log
  /\ length(call.pre) > 0
  /\ call.nb > length(call.pre)
  /\ length(pkt[call.h]) = 0

\* C12: for every live Packet, headroom + length + tailroom = buffer_length,
\* each term being a length of a part of the buffer (none negative).
C12_Partition ==
  \A h \in Live(pkt) :
    /\ headroom(pkt[h]) + length(pkt[h]) + tailroom(pkt[h]) = buffer_length(pkt[h])
    /\ headroom(pkt[h]) >= 0 /\ length(pkt[h]) >= 0 /\ tailroom(pkt[h]) >= 0
    /\ pkt[h].buf \in Bufs => buffer_length(pkt[h]) <= Len(buf[pkt[h].buf].bytes)

\* a packet whose three parts are all non-empty, reached by calls that moved
\* its data and tail pointers
C12_Witness ==
  \E h \in Live(pkt) :
    /\ call.op \in {"push", "put", "pull", "take"}
    /\ call.r = h \/ call.h = h
    /\ headroom(pkt[h]) > 0 /\ length(pkt[h]) > 0 /\ tailroom(pkt[h]) > 0

\* C13: on every live packet on which a network header has been set,
\* network header offset <= transport header offset <= length, after any
\* sequence of set_network_header, push, pull, put and take calls.
C13_HeaderOrder ==
  \A h \in Live(pkt) :
    has_network_header(pkt[h]) =>
      /\ network_header_offset(pkt[h]) <= transport_header_offset(pkt[h])
      /\ transport_header_offset(pkt[h]) <= length(pkt[h])

\* the protocol the element expects, the transport length the packet claims
\* and the least a transport header takes
Expected(E) == IF E.tcp THEN IP_PROTO_TCP ELSE IP_PROTO_UDP
Claimed(E, d) == IF E.tcp THEN U32(d.ip_len - d.ip_hl * 4) ELSE d.uh_ulen
MinHeader(E) == IF E.tcp THEN SizeofTcp ELSE SizeofUdp
\* the step hands a packet to the element
Processes == chk'.seen = chk.seen + 1

\* C14: every packet gets exactly one outcome, decided by the first failing
\* check in the order protocol, length, checksum: a packet with no network
\* header, or whose IP protocol is not the expected one, is diverted as
\* 'not TCP' / 'not UDP' whatever its length and checksum fields are, and no
\* transport-header field is read and no checksum computed for it; a packet
\* diverted for another reason has passed the protocol check.
C14_ProtocolFirst ==
  LET r == chk.last
  IN r.h # 0 =>
       /\ r.why \in 0..Len(Reasons)
       /\ (r.ret = r.h) = (r.why = 0)
       /\ r.ret \in {0, r.h}
       /\ (~r.hn \/ r.d.ip_p # Expected(chk)) =>
            r.why = 1 /\ ~r.th_read /\ r.cksum = Null
       /\ r.why = 1 => (~r.hn \/ r.d.ip_p # Expected(chk))
       /\ r.why = 3 => r.cksum # Null /\ ~r.d.sum_ok /\ Claimed(chk, r.d) >= MinHeader(chk)

\* a packet of the expected protocol, with good lengths and checksum, but
\* without a network header, diverted for its protocol
C14_Witness ==
  LET r == chk.last
  IN /\ r.h # 0 /\ ~r.hn /\ r.why = 1
     /\ r.d.ip_p = Expected(chk) /\ r.d.sum_ok
     /\ Claimed(chk, r.d) = r.d.avail

\* C15: a packet of the expected protocol is diverted for 'bad packet
\* length' whenever its claimed transport length is below the minimum
\* transport header size (for TCP also when the data offset times 4 is below
\* 20) or exceeds the bytes present in the packet after the network header;
\* so a checksum is only computed over bytes within the packet.
C15_LengthChecked ==
  LET r == chk.last
  IN (r.h # 0 /\ r.hn /\ r.d.ip_p = Expected(chk)) =>
       /\ (\/ Claimed(chk, r.d) < MinHeader(chk)
           \/ chk.tcp /\ r.d.th_off * 4 < SizeofTcp
           \/ Claimed(chk, r.d) > r.d.avail) => r.why = 2
       /\ r.cksum # Null => r.cksum <= r.d.avail

\* C16: CheckUDPHeader forwards and counts as accepted every packet that has
\* a network header, IP protocol 17, a UDP length of at least 8 and a wire
\* checksum field of 0, whether CHECKSUM is on or off; no checksum is
\* computed for it.
C16_NoChecksum ==
  [][LET r == chk'.last
     IN (/\ Processes /\ ~chk.tcp
         /\ r.hn /\ r.d.ip_p = IP_PROTO_UDP
         /\ r.d.uh_ulen >= SizeofUdp /\ r.d.uh_sum = 0) =>
          /\ r.why = 0 /\ r.ret = r.h /\ r.cksum = Null
          /\ chk'.count = chk.count + 1
          /\ chk'.drops = chk.drops
          /\ pkt'[r.h] = pkt[r.h] /\ pkt[r.h].held]_vars

\* such a packet, whose bytes would not pass a checksum, accepted by an
\* element that verifies checksums
C16_Witness ==
  LET r == chk.last
  IN /\ ~chk.tcp /\ chk.checksum
     /\ r.h # 0 /\ r.hn /\ r.d.ip_p = IP_PROTO_UDP
     /\ r.d.uh_ulen >= SizeofUdp /\ r.d.uh_sum = 0 /\ ~r.d.sum_ok
     /\ r.why = 0 /\ chk.count > 0

\* the sum of the per-reason counters
RECURSIVE SumTo(_, _)
SumTo(f, n) == IF n = 0 THEN 0 ELSE f[n] + SumTo(f, n - 1)

\* C17: each packet processed adds exactly 1 to exactly one of count and
\* drops, so count + drops is the number of packets processed; with DETAILS
\* each drop adds 1 to the counter of its reason and to no other, so the
\* per-reason counters sum to drops; an accepted packet changes no drop
\* counter.
C17_Counters ==
  [][Processes =>
       LET r == chk'.last
       IN /\ IF r.why = 0
             THEN /\ chk'.count = chk.count + 1
                  /\ chk'.drops = chk.drops
                  /\ chk'.reason_drops = chk.reason_drops
             ELSE /\ chk'.count = chk.count
                  /\ chk'.drops = chk.drops + 1
                  /\ chk.details =>
                       chk'.reason_drops =
                         [chk.reason_drops EXCEPT ![r.why] = @ + 1]
          /\ chk'.count + chk'.drops = chk'.seen
          /\ chk.details =>
               SumTo(chk'.reason_drops, Len(Reasons)) = chk'.drops]_vars

\* an element with DETAILS that has accepted a packet and dropped two for
\* different reasons
C17_Witness ==
  /\ chk.details /\ chk.count > 0 /\ chk.drops = 2
  /\ \E a, b \in 1..Len(Reasons) :
       a # b /\ chk.reason_drops[a] = 1 /\ chk.reason_drops[b] = 1

\* C18: every packet gets exactly one disposition: one that passes is
\* returned for output 0 as it was and is not killed; one that fails is not
\* returned (simple_action returns null) and is pushed to output 1 when the
\* element has two outputs, otherwise killed exactly once.
C18_Disposition ==
  [][Processes =>
       LET r == chk'.last
           h == r.h
       IN /\ h \in Held(pkt) /\ h \notin chk.out1 \cup chk.killed
          /\ \A o \in Pkts \ {h} : pkt'[o] = pkt[o] \/ pkt[h].data_packet # 0
          /\ IF r.why = 0
             THEN /\ r.ret = h /\ call'.r = h
                  /\ pkt' = pkt /\ buf' = buf
                  /\ chk'.out1 = chk.out1 /\ chk'.killed = chk.killed
             ELSE /\ r.ret = 0 /\ call'.r = 0
                  /\ h \notin Held(pkt')
                  /\ IF chk.noutputs = 2
                     THEN /\ chk'.out1 = chk.out1 \cup {h}
                          /\ chk'.killed = chk.killed
                          /\ pkt' = [pkt EXCEPT ![h].held = FALSE]
                          /\ buf' = buf
                     ELSE /\ chk'.killed = chk.killed \cup {h}
                          /\ chk'.out1 = chk.out1
                          /\ IF pkt[h].use_count > 1
                             THEN /\ pkt'[h].use_count = pkt[h].use_count - 1
                                  /\ buf' = buf
                             ELSE pkt'[h].st = "deleted"
                          /\ \A b \in Bufs : buf'[b].frees <= 1]_vars

\* with one output a failing packet that nothing else refers to has been
\* killed and its buffer released; with two it is on output 1, alive
C18_Witness ==
  LET r == chk.last
  IN /\ r.h # 0 /\ r.why # 0
     /\ \/ /\ chk.noutputs = 1 /\ r.h \in chk.killed
           /\ pkt[r.h].st = "deleted" /\ buf[call.pre.buf].frees = 1
        \/ /\ chk.noutputs = 2 /\ r.h \in chk.out1
           /\ pkt[r.h].st = "live" /\ buf[call.pre.buf].frees = 0
     /\ chk.count > 0

\* C19: the counters are updated atomically under concurrent workers: no
\* increment is lost, so once all threads are done count + drops is the
\* number of packets processed, and count and drops never decrease.
C19_NoLostUpdate ==
  [][/\ chk'.count >= chk.count
     /\ chk'.drops >= chk.drops
     /\ AllAtRest' => chk'.count + chk'.drops = chk'.seen]_vars

\* a thread about to increment _drops after another thread has incremented
\* it since this one tested it
C19_Witness ==
  \E t \in Threads : chk.w[t].pc = "inc" /\ chk.w[t].reg < chk.drops

\* C20: with VERBOSE off the element logs exactly one drop, the first, and no
\* later one, also when several worker threads drop packets at once; with
\* VERBOSE on every drop is logged.
C20_FirstDropLogged ==
  /\ ~chk.verbose => chk.logs <= 1 /\ (chk.drops > 0 => chk.logs = 1)
  /\ chk.verbose => chk.logs >= chk.drops
  /\ (chk.verbose /\ AllAtRest) => chk.logs = chk.drops

\* C21: copy_annotations(src) makes the destination's annotation area
\* (destination address and user flags), packet type, device and timestamp
\* equal to the source's, whatever the destination held before, and changes
\* nothing else: the destination's head, data, tail, end, bytes, header
\* pointers and reference count, every field of the source, every other
\* Packet and every buffer are as before.
C21_CopyAnnotations ==
  [][call'.op = "copy_annotations" =>
       LET p == pkt[call'.h]
           q == pkt'[call'.h]
           src == pkt[call'.nb]
       IN /\ q.cb = src.cb /\ q.dst_ip = src.dst_ip
          /\ q.pkt_type = src.pkt_type
          /\ q.timestamp = src.timestamp
          /\ device_anno(q) = device_anno(src)
          /\ q.head = p.head /\ q.data = p.data /\ q.tail = p.tail /\ q.end = p.end
          /\ q.nh = p.nh /\ q.h_raw = p.h_raw
          /\ q.use_count = p.use_count /\ q.data_packet = p.data_packet
          /\ q.buf = p.buf /\ q.st = p.st /\ q.destructor = p.destructor
          /\ call'.h # call'.nb => pkt'[call'.nb] = src
          /\ \A o \in Pkts \ {call'.h} : pkt'[o] = pkt[o]
          /\ buf' = buf]_vars

\* annotations copied onto a packet that differed from the source in the
\* user flags and the timestamp, and that has header pointers and a data
\* pointer of its own
C21_Witness ==
  /\ call.op = "copy_annotations" /\ call.h # call.nb
  /\ call.pre.cb # pkt[call.nb].cb
  /\ call.pre.timestamp # pkt[call.nb].timestamp
  /\ pkt[call.h].cb = pkt[call.nb].cb
  /\ pkt[call.h].timestamp = pkt[call.nb].timestamp
  /\ pkt[call.h].data # pkt[call.nb].data

\* C22: in CheckTCPHeader a TCP packet whose IP total length is smaller than
\* its IP header length (ip_hl * 4) is diverted for 'bad packet length': the
\* unsigned subtraction ip_len - ip_hl * 4 does not wrap into a large claimed
\* length that passes the length test and becomes the checksum length.
C22_NoWraparound ==
  LET r == chk.last
  IN (/\ chk.tcp /\ r.h # 0 /\ r.hn /\ r.d.ip_p = IP_PROTO_TCP
      /\ r.d.ip_len < r.d.ip_hl * 4) =>
       /\ r.why = 2 /\ r.ret = 0
       /\ r.cksum = Null

\* C23: change_headroom_and_length(h, l) sets headroom to h and length to l
\* exactly when h + l <= buffer_length and otherwise changes nothing; for all
\* unsigned h and l, pairs whose sum wraps included, the packet satisfies
\* head <= data <= tail <= end after the call.
C23_Resize ==
  [][call'.op = "change_headroom_and_length" =>
       LET p == pkt[call'.h]
           q == pkt'[call'.h]
           hr == call'.nb[1]
           len == call'.nb[2]
       IN /\ IF hr + len <= buffer_length(p)
             THEN q = [p EXCEPT !.data = p.head + hr, !.tail = p.head + hr + len]
             ELSE q = p
          /\ q.head <= q.data /\ q.data <= q.tail /\ q.tail <= q.end]_vars

\* C24: offsets are per handle: pull, take, nonunique_push and nonunique_put
\* (with enough room) on one handle of a shared packet change only that
\* handle's data or tail offset; the buffer bytes, the reference counts and
\* what every other handle of the buffer shows are unchanged, and no copy is
\* made.
C24_PerHandleOffsets ==
  [][\A h \in Pkts :
       LET p == pkt[h]
           n == call'.nb
           op == call'.op
       IN (/\ call'.h = h
           /\ op \in {"pull", "take", "nonunique_push", "nonunique_put"}
           /\ shared(p)
           /\ op = "nonunique_push" => headroom(p) >= n
           /\ op = "nonunique_put" => tailroom(p) >= n) =>
            /\ op = "pull" =>
                 pkt'[h] = [p EXCEPT !.data = IF n > length(p) THEN p.tail ELSE p.data + n]
            /\ op = "take" =>
                 pkt'[h] = [p EXCEPT !.tail = IF n > length(p) THEN p.data ELSE p.tail - n]
            /\ op = "nonunique_push" =>
                 pkt'[h] = [p EXCEPT !.data = p.data - n] /\ call'.r = h
            /\ op = "nonunique_put" =>
                 pkt'[h] = [p EXCEPT !.tail = p.tail + n] /\ call'.r = h
            /\ \A o \in Pkts \ {h} : pkt'[o] = pkt[o]
            /\ buf' = buf
            /\ Allocs(pkt', buf') = Allocs(pkt, buf)]_vars

\* a nonunique_push or nonunique_put of at least one byte on one handle of
\* a cloned packet, after which another handle of the same buffer shows a
\* different length
C24_Witness ==
  /\ call.op \in {"nonunique_push", "nonunique_put"}
  /\ call.nb > 0
  /\ call.h \in Live(pkt) /\ call.r = call.h
  /\ shared(call.pre)
  /\ \E o \in Live(pkt) \ {call.h} :
       /\ pkt[o].buf = pkt[call.h].buf
       /\ length(pkt[o]) = length(call.pre)
       /\ length(pkt[o]) # length(pkt[call.h])

====
